---- MODULE Spec2Model ----
(***************************************************************************)
(* ChatScaleHub: the socket server (services/socket.ts), its Redis relay   *)
(* on the 'Messages' topic, and the web client's SocketProvider.           *)
(*                                                                         *)
(* A JavaScript object is a record whose fields are options: <<>> is an    *)
(* absent (undefined) property, <<v>> a property holding v.  Message text  *)
(* is a sequence of one-character strings, every other scalar a string.    *)
(***************************************************************************)
EXTENDS Integers, Sequences, FiniteSets, TLC

\* ------------------------------------------------------------------ bounds
MaxSubmits == 2        \* event:message events over the whole run
MaxEvents == 1         \* join_room, leave_room and disconnect events, and
                       \* payloads other publishers put on the topic, over
                       \* the whole run
MaxClock == 1          \* last value the millisecond clock takes
MaxSessionEvents == 3  \* the same events, in a run without event:message traffic
MaxTyping == 2         \* setTyping calls, in a run without event:message traffic
MaxRetries == 362      \* reconnect attempts in a row, in a run of the broker link
MaxIncoming == 3       \* events a server sends to the web client, in a run of
                       \* the client

\* ------------------------------------------------------------- the parties
\* The instance under study and its sockets.  Its peers (other instances on
\* the same broker) are seen through what they put on the topic.
Inst == {1}
Conn == {"a", "b"}
Home == [c \in Conn |-> 1]
\* socket b runs the web client (SocketProvider); socket a is driven by other
\* client software, which may send any payload
WebClients == {"b"}
RawClients == {"a"}
SocketId(c) == "sid_" \o c
UserId(c) == "u_" \o c
UserName(c) == "name_" \o c

\* ------------------------------------------------------- JavaScript values
None == <<>>
Some(v) == <<v>>
\* a || b on an optional string
Truthy(o) == o # None /\ o[1] # ""
OrElse(o, d) == IF Truthy(o) THEN o[1] ELSE d
\* a ?? b on an optional value
Nullish(o, d) == IF o # None THEN o[1] ELSE d

Digits36 == << "0", "1", "2", "3", "4", "5", "6", "7", "8", "9", "a", "b",
               "c", "d", "e", "f", "g", "h", "i", "j", "k", "l", "m", "n",
               "o", "p", "q", "r", "s", "t", "u", "v", "w", "x", "y", "z" >>

RECURSIVE ToBase(_, _)
\* Number.prototype.toString(radix), radix <= 36
ToBase(n, radix) ==
  IF n < radix THEN Digits36[n + 1]
  ELSE ToBase(n \div radix, radix) \o Digits36[(n % radix) + 1]

\* Date.prototype.toISOString() of a time within the first second of the epoch
ToISOString(t) ==
  LET d == ToBase(t, 10)
      pad == IF t < 10 THEN "00" ELSE IF t < 100 THEN "0" ELSE ""
  IN  "1970-01-01T00:00:00." \o pad \o d \o "Z"

RECURSIVE TrimStart(_)
TrimStart(s) == IF s # <<>> /\ Head(s) = " " THEN TrimStart(Tail(s)) ELSE s
RECURSIVE TrimEnd(_)
TrimEnd(s) ==
  IF s # <<>> /\ s[Len(s)] = " " THEN TrimEnd(SubSeq(s, 1, Len(s) - 1)) ELSE s
\* String.prototype.trim()
Trim(s) == TrimEnd(TrimStart(s))

\* ------------------------------------------------------------ message shape
MessageKeys == << "id", "conversationId", "senderId", "senderName", "text",
                  "createdAt" >>

MessageShape(id, conversationId, senderId, senderName, text, createdAt) ==
  [id |-> id, conversationId |-> conversationId, senderId |-> senderId,
   senderName |-> senderName, text |-> text, createdAt |-> createdAt]

Field(m, k) ==
  CASE k = "id" -> m.id
    [] k = "conversationId" -> m.conversationId
    [] k = "senderId" -> m.senderId
    [] k = "senderName" -> m.senderName
    [] k = "text" -> m.text
    [] k = "createdAt" -> m.createdAt

\* JSON text is a sequence of tokens: an opening brace, one <<key, value>>
\* member per defined property, a closing brace.
LBrace == << "{" >>
RBrace == << "}" >>

RECURSIVE Members(_, _)
Members(m, keys) ==
  IF keys = <<>> THEN <<>>
  ELSE (IF Field(m, Head(keys)) = None THEN <<>>
        ELSE << <<Head(keys), Field(m, Head(keys))[1]>> >>)
       \o Members(m, Tail(keys))

\* JSON.stringify(messageObject): undefined properties are left out
JSONstringify(m) == <<LBrace>> \o Members(m, MessageKeys) \o <<RBrace>>

IsToken(t, s) == Len(t) = 1 /\ t[1] = s
WellFormed(p) ==
  /\ Len(p) >= 2
  /\ IsToken(p[1], "{")
  /\ IsToken(p[Len(p)], "}")
  /\ \A n \in 2..(Len(p) - 1) : Len(p[n]) = 2

Property(p, k) ==
  LET hits == {n \in 2..(Len(p) - 1) : p[n][1] = k}
  IN  IF hits = {} THEN None ELSE Some(p[CHOOSE n \in hits : TRUE][2])

\* JSON.parse(message): the parsed object, or a thrown SyntaxError
JSONparse(p) ==
  IF WellFormed(p)
  THEN [threw |-> FALSE,
        value |-> MessageShape(Property(p, "id"), Property(p, "conversationId"),
                               Property(p, "senderId"), Property(p, "senderName"),
                               Property(p, "text"), Property(p, "createdAt"))]
  ELSE [threw |-> TRUE, value |-> None]

\* a payload that is not JSON: an object that is never closed
Malformed == << LBrace, <<"id", "x">> >>

\* ------------------------------------------------------------------ drafts
\* What a client hands to socket.emit('event:message', ...): a bare string,
\* null, or an object with any of the properties the handler reads.
StringDraft(s) ==
  [kind |-> "string", str |-> s, id |-> None, conversationId |-> None,
   senderId |-> None, senderName |-> None, text |-> None, message |-> None,
   createdAt |-> None]
NullDraft ==
  [kind |-> "null", str |-> <<>>, id |-> None, conversationId |-> None,
   senderId |-> None, senderName |-> None, text |-> None, message |-> None,
   createdAt |-> None]
ObjectDraft(id, conversationId, senderId, senderName, text, message, createdAt) ==
  [kind |-> "object", str |-> <<>>, id |-> id, conversationId |-> conversationId,
   senderId |-> senderId, senderName |-> senderName, text |-> text,
   message |-> message, createdAt |-> createdAt]

Drafts ==
  { ObjectDraft(Some("tmp_1"), Some("X"), Some("u1"), None,
                Some(<<"h", "i">>), None, None),
    ObjectDraft(None, None, Some("u1"), None,
                Some(<<"h", "e", "l", "l", "o">>), None, None),
    ObjectDraft(Some(""), Some(""), None, Some("Al"), Some(<<" ", " ", " ">>),
                Some(<<"m">>), Some("2024-01-01T00:00:00.000Z")),
    StringDraft(<<"y", "o">>),
    NullDraft }

\* ------------------------------------------------------------------- state
VARIABLES
  USE_REDIS,   \* per instance: process.env.USE_REDIS === 'true'
  initThrew,   \* per instance: the constructor statement that threw, or "none"
  pub,         \* per instance: this.pub is a Redis handle (not undefined)
  sub,         \* per instance: this.sub is a Redis handle (not undefined)
  listening,   \* per instance: the 'message' handler is attached to the subscriber
  crashed,     \* instances ended by an error that escaped a handler
  cmdQ,        \* per instance: publish commands issued and not yet resolved
  subQ,        \* per instance: messages arriving on the subscribe connection
  topicLog,    \* everything that appeared on the 'Messages' topic, in order
  connected,   \* sockets currently connected
  rooms,       \* per socket: the rooms it has joined
  wire,        \* per socket: drafts the web client emitted, not yet handled
  received,    \* per socket: the 'message' events the server sent to it
  messages,    \* per socket: the client's message list (React state)
  submitLog,   \* one record per handled event:message, in handling order
  now,         \* the last value Date.now() returned
  sent,        \* per socket: the other events the server sent to it
  onlineUsers, \* per socket: the client's onlineUsers set (React state)
  typingUsers, \* per socket: the client's typingUsers list (React state)
  typingLog,   \* per socket: the typing events it emitted, in order
  roomLog,     \* one record per handled join_room / leave_room, in order
  retry,       \* per instance: the reconnect attempts in a row of the broker
               \* link, and the delay before the next one
  limit,       \* the run bounds that apply to this run
  used         \* how much of each run bound has been used

service == << USE_REDIS, initThrew, pub, sub, listening, retry >>
\* what the join_room, leave_room and typing handlers touch besides rooms
session == << sent, onlineUsers, typingUsers, typingLog, roomLog >>
vars == << USE_REDIS, initThrew, pub, sub, listening, crashed, cmdQ, subQ, topicLog,
           connected, rooms, wire, received, messages, submitLog, now, sent,
           onlineUsers, typingUsers, typingLog, roomLog, retry, limit, used >>

MessagesTopic == "Messages"

\* ------------------------------------------------------------- constructor
\* The statements of the constructor's try block, in order, and the one that
\* throws ("none": the block completes).
TryBlock == << "newRedis", "duplicate", "adapter", "onError", "subscribe",
               "onMessage" >>
ThrowPoints == {"none", "newRedis", "subscribe"}
Position(stmt) == CHOOSE n \in 1..Len(TryBlock) : TryBlock[n] = stmt
\* the statement ran to completion
Completed(stmt, throwAt) ==
  throwAt = "none" \/ Position(stmt) < Position(throwAt)

ConstructorNoReset(useRedis, throwAt) ==
  IF useRedis
  THEN [pub |-> Completed("newRedis", throwAt),
        sub |-> Completed("duplicate", throwAt),
        listening |-> Completed("onMessage", throwAt)]
  ELSE [pub |-> FALSE, sub |-> FALSE, listening |-> FALSE]

\* the fields the constructor leaves behind
Constructor(useRedis, throwAt) ==
  IF useRedis
  THEN IF throwAt = "none"
       THEN [pub |-> Completed("newRedis", throwAt),
             sub |-> Completed("duplicate", throwAt),
             listening |-> Completed("onMessage", throwAt)]
       ELSE \* catch: this.pub = undefined; this.sub = undefined
            [pub |-> FALSE, sub |-> FALSE,
             listening |-> Completed("onMessage", throwAt)]
  ELSE [pub |-> FALSE, sub |-> FALSE, listening |-> FALSE]

Configs ==
  { cfg \in [Inst -> [useRedis : BOOLEAN, throwAt : ThrowPoints]] :
      \A i \in Inst : ~cfg[i].useRedis => cfg[i].throwAt = "none" }

\* A run either carries event:message traffic with few other events, or no
\* traffic and more of the other events, or only reconnects of the broker link.
Limits ==
  { [submits |-> MaxSubmits, events |-> MaxEvents, typing |-> 0, retries |-> 0,
     incoming |-> 0],
    [submits |-> 0, events |-> MaxSessionEvents, typing |-> MaxTyping,
     retries |-> 0, incoming |-> 0],
    [submits |-> 0, events |-> 0, typing |-> 0, retries |-> MaxRetries,
     incoming |-> 0] }

\* the state the constructor leaves, for a configuration and the bounds of a run
Start(cfg, lim) ==
    /\ USE_REDIS = [i \in Inst |-> cfg[i].useRedis]
    /\ initThrew = [i \in Inst |-> cfg[i].throwAt]
    /\ pub = [i \in Inst |-> Constructor(cfg[i].useRedis, cfg[i].throwAt).pub]
    /\ sub = [i \in Inst |-> Constructor(cfg[i].useRedis, cfg[i].throwAt).sub]
    /\ listening = [i \in Inst |->
                      Constructor(cfg[i].useRedis, cfg[i].throwAt).listening]
    /\ crashed = {}
    /\ cmdQ = [i \in Inst |-> <<>>]
    /\ subQ = [i \in Inst |-> <<>>]
    /\ topicLog = <<>>
    /\ connected = {}
    /\ rooms = [c \in Conn |-> {}]
    /\ wire = [c \in Conn |-> <<>>]
    /\ received = [c \in Conn |-> <<>>]
    /\ messages = [c \in Conn |-> <<>>]
    /\ submitLog = <<>>
    /\ now = 0
    /\ sent = [c \in Conn |-> <<>>]
    /\ onlineUsers = [c \in Conn |-> {}]
    /\ typingUsers = [c \in Conn |-> <<>>]
    /\ typingLog = [c \in Conn |-> <<>>]
    /\ roomLog = <<>>
    /\ retry = [i \in Inst |-> [times |-> 0, delay |-> 0]]
    /\ limit = lim
    /\ used = [submits |-> 0, events |-> 0, typing |-> 0, rejected |-> 0,
               incoming |-> 0]

Init == \E cfg \in Configs, lim \in Limits : Start(cfg, lim)

\* ------------------------------------------------------------ client side
\* an emitted event reaches the server before the next event is emitted
Quiet == \A c \in Conn : wire[c] = <<>>

\* the values a read of the clock may return
Clock == now..MaxClock

onMessageReceivedAppend(prev, msg) == Append(prev, msg)

\* onMessageReceived: replace the entry with the same id, else append
onMessageReceived(prev, msg) ==
  IF \E n \in 1..Len(prev) : prev[n].id = msg.id
  THEN [n \in 1..Len(prev) |-> IF prev[n].id = msg.id THEN msg ELSE prev[n]]
  ELSE Append(prev, msg)

\* An event other than 'message', as the server writes it to a socket.  The
\* payload is an object with any of the properties below, or a bare string
\* (str), or an array of strings (users).
Payload(roomId, userId, username, str, users) ==
  [roomId |-> roomId, userId |-> userId, username |-> username, str |-> str,
   users |-> users]
StringPayload(s) == Payload(None, None, None, Some(s), None)
Event(name, payload) == [event |-> name, payload |-> payload]

\* String(payload) inside a template literal
TemplateString(p) == IF p.str # None THEN p.str[1] ELSE "[object Object]"

\* the entry the presence handlers add to the message list; its text is kept
\* as the pieces of the template literal
SystemMessage(t, text) ==
  MessageShape(Some("system_" \o ToBase(t, 10)), None, Some("system"), None,
               Some(text), Some(ToISOString(t)))

\* s.on('user:joined', ({ userId, username }) => ...)
onUserJoined(st, p, t) ==
  [st EXCEPT !.messages =
     Append(@, SystemMessage(t, << OrElse(p.username, "A new user"),
                                   " joined the chat" >>))]

\* s.on('user:left', ({ userId, username }) => ...)
onUserLeft(st, p, t) ==
  [st EXCEPT !.messages =
     Append(@, SystemMessage(t, << OrElse(p.username, "Someone"),
                                   " left the chat" >>))]

onUserTypingNoCheck(st, p) == [st EXCEPT !.typingUsers = Append(@, p.username)]

\* s.on('user:typing', ...), registered twice with the same body; the list
\* holds what the event carried as username, undefined included
onUserTyping(st, p) ==
  IF \E n \in 1..Len(st.typingUsers) : st.typingUsers[n] = p.username
  THEN st
  ELSE [st EXCEPT !.typingUsers = Append(@, p.username)]

\* s.on('user:stop-typing', ...), registered twice with the same body
onUserStopTyping(st, p) ==
  [st EXCEPT !.typingUsers = SelectSeq(@, LAMBDA name : name # p.username)]

\* s.on('users:online', (users: string[]) => setOnlineUsers(new Set(users)))
onUsersOnline(st, p) ==
  [st EXCEPT !.onlineUsers =
     IF p.users = None THEN {}
     ELSE {StringPayload(p.users[1][n]) : n \in 1..Len(p.users[1])}]

\* s.on('user:joined', (userId: string) => ...): the set takes the payload
\* itself
onUserJoinedPresence(st, p, t) ==
  [st EXCEPT !.onlineUsers = @ \cup {p},
             !.messages =
               Append(@, SystemMessage(t, << TemplateString(p), " joined the chat" >>))]

\* s.on('user:left', (userId: string) => ...)
onUserLeftPresence(st, p, t) ==
  [st EXCEPT !.onlineUsers = @ \ {p},
             !.messages =
               Append(@, SystemMessage(t, << TemplateString(p), " left the chat" >>))]

\* The listeners SocketProvider registers, run in registration order on an
\* incoming event e; t1 <= t2 are the clock readings of the two listeners
\* of a presence event.  An event without a listener changes nothing.
ClientOn(st, e, t1, t2) ==
  CASE e.event = "user:joined" ->
         onUserJoinedPresence(onUserJoined(st, e.payload, t1), e.payload, t2)
    [] e.event = "user:left" ->
         onUserLeftPresence(onUserLeft(st, e.payload, t1), e.payload, t2)
    [] e.event = "user:typing" ->
         onUserTyping(onUserTyping(st, e.payload), e.payload)
    [] e.event = "user:stop-typing" ->
         onUserStopTyping(onUserStopTyping(st, e.payload), e.payload)
    [] e.event = "users:online" -> onUsersOnline(st, e.payload)
    [] OTHER -> st

\* the React state of the client on socket c
ClientState(c) ==
  [messages |-> messages[c], typingUsers |-> typingUsers[c],
   onlineUsers |-> onlineUsers[c]]

\* Math.random().toString(36).slice(2, 5)
RandomSuffix == {"k3f"}

\* what the page passes to sendMessage
SendTexts == { <<"o", "k">> }

\* the body of sendMessage(text) at time t with random suffix r: what it
\* emits and what it appends to the message list
sendMessageUnguarded(c, text, r, t) ==
  LET tempId == "tmp_" \o ToBase(t, 36) \o "_" \o r
      msg == MessageShape(Some(tempId), None, Some(UserId(c)),
                          Some(UserName(c)), Some(text), Some(ToISOString(t)))
  IN  [emit |-> << ObjectDraft(msg.id, None, msg.senderId, msg.senderName,
                               msg.text, None, msg.createdAt) >>,
       append |-> << msg >>]

SendMessageBody(c, text, r, t) ==
  IF c \notin connected
  THEN \* if (!socket || !socket.connected) return
       [emit |-> <<>>, append |-> <<>>]
  ELSE LET tempId == "tmp_" \o ToBase(t, 36) \o "_" \o r
           msg == MessageShape(Some(tempId), None, Some(UserId(c)),
                               Some(UserName(c)), Some(text),
                               Some(ToISOString(t)))
       IN  [emit |-> << ObjectDraft(msg.id, None, msg.senderId, msg.senderName,
                                    msg.text, None, msg.createdAt) >>,
            append |-> << msg >>]

\* sendMessage(text): on a connected socket emit the draft, then append the
\* optimistic copy; otherwise return
sendMessage(c, text) ==
  /\ Quiet
  /\ used.submits < limit.submits
  /\ \E r \in RandomSuffix, t \in (IF c \in connected THEN Clock ELSE {now}) :
       LET b == SendMessageBody(c, text, r, t)
       IN  /\ wire' = [wire EXCEPT ![c] = @ \o b.emit]
           /\ messages' = [messages EXCEPT ![c] = @ \o b.append]
           /\ now' = t
  /\ used' = [used EXCEPT !.submits = @ + 1,
                          !.rejected = IF c \in connected THEN @ ELSE @ + 1]
  /\ UNCHANGED << service, crashed, cmdQ, subQ, topicLog, connected, rooms,
                  received, submitLog, session, limit >>

TypingEvent(isTyping) == IF isTyping THEN "user:typing" ELSE "user:stop-typing"

\* the body of setTyping(isTyping): the events it emits
SetTypingBody(c, isTyping) ==
  IF c \notin connected
  THEN \* if (!socket || !socket.connected) return
       <<>>
  ELSE << [event |-> TypingEvent(isTyping), userId |-> Some(UserId(c)),
           username |-> Some(UserName(c))] >>

\* setTyping(isTyping), as the page calls it on every change of the input
\* (true while the input is not empty), on Enter and on blur (false).  The
\* server has no listener for either event: what is emitted goes no further.
setTyping(c, isTyping) ==
  /\ Quiet
  /\ used.typing < limit.typing
  /\ typingLog' = [typingLog EXCEPT ![c] = @ \o SetTypingBody(c, isTyping)]
  /\ used' = [used EXCEPT !.typing = @ + 1]
  /\ UNCHANGED << service, crashed, cmdQ, subQ, topicLog, connected, rooms, wire,
                  received, messages, submitLog, now, sent, onlineUsers,
                  typingUsers, roomLog, limit >>

\* ------------------------------------------------------------- server side
\* the try block of the event:message handler up to the log line: the
\* canonical message, or a TypeError when msg is null
messageObjectFreshId(msg, socketId, t) ==
  CASE msg.kind = "string" ->
         [threw |-> FALSE,
          value |-> MessageShape(Some("tmp_" \o ToBase(t, 36)), None,
                                 Some(socketId), None, Some(msg.str),
                                 Some(ToISOString(t)))]
    [] msg.kind = "object" ->
         [threw |-> FALSE,
          value |-> MessageShape(
                      Some("tmp_" \o ToBase(t, 36)),
                      msg.conversationId,
                      Some(OrElse(msg.senderId, socketId)),
                      msg.senderName,
                      Some(Nullish(msg.text, Nullish(msg.message, <<>>))),
                      Some(OrElse(msg.createdAt, ToISOString(t))))]
    [] msg.kind = "null" -> [threw |-> TRUE, value |-> None]

messageObjectNoDefaults(msg, socketId, t) ==
  CASE msg.kind = "string" ->
         [threw |-> FALSE,
          value |-> MessageShape(Some("tmp_" \o ToBase(t, 36)), None,
                                 Some(socketId), None, Some(msg.str),
                                 Some(ToISOString(t)))]
    [] msg.kind = "object" ->
         [threw |-> FALSE,
          value |-> MessageShape(
                      Some(OrElse(msg.id, "tmp_" \o ToBase(t, 36))),
                      msg.conversationId, msg.senderId, msg.senderName,
                      msg.text, msg.createdAt)]
    [] msg.kind = "null" -> [threw |-> TRUE, value |-> None]

messageObject(msg, socketId, t) ==
  CASE msg.kind = "string" ->
         [threw |-> FALSE,
          value |-> MessageShape(Some("tmp_" \o ToBase(t, 36)), None,
                                 Some(socketId), None, Some(msg.str),
                                 Some(ToISOString(t)))]
    [] msg.kind = "object" ->
         [threw |-> FALSE,
          value |-> MessageShape(
                      Some(OrElse(msg.id, "tmp_" \o ToBase(t, 36))),
                      msg.conversationId,
                      Some(OrElse(msg.senderId, socketId)),
                      msg.senderName,
                      Some(Nullish(msg.text, Nullish(msg.message, <<>>))),
                      Some(OrElse(msg.createdAt, ToISOString(t))))]
    [] msg.kind = "null" -> [threw |-> TRUE, value |-> None]

EventMessageNoCatch(msg, socketId, t) ==
  LET r == messageObject(msg, socketId, t)
  IN  [threw |-> r.threw, value |-> r.value, uncaught |-> r.threw]

\* try { ... } catch (err) { console.error(...) } around the handler's body:
\* what was thrown inside is logged and goes no further
EventMessageTry(msg, socketId, t) ==
  LET r == messageObject(msg, socketId, t)
  IN  [threw |-> r.threw, value |-> r.value, uncaught |-> FALSE]

\* the handler calls Date.now() only where a property is missing
ReadsClock(d) ==
  d.kind = "string" \/ (d.kind = "object" /\ (~Truthy(d.id) \/ ~Truthy(d.createdAt)))

\* the sockets of instance i
LocalSockets(i) == {c \in connected : Home[c] = i}

\* io.emit('message', ...): the sockets the event is written to
IoEmit(i) == LocalSockets(i)

\* io.to(room).emit('message', ...): the sockets the event is written to
IoToEmit(i, room) == {c \in LocalSockets(i) : room \in rooms[c]}

FanoutOnlyRoomMembers(i, m) ==
  IF Truthy(m.conversationId)
  THEN IoToEmit(i, m.conversationId[1])
  ELSE {c \in LocalSockets(i) : rooms[c] # {}}

FanoutAfterPublish(i, m) ==
  IF pub[i] THEN {}
  ELSE IF Truthy(m.conversationId)
       THEN IoToEmit(i, m.conversationId[1])
       ELSE IoEmit(i)

\* if (messageObject.conversationId) io.to(...).emit(...) else io.emit(...)
Fanout(i, m) ==
  IF Truthy(m.conversationId)
  THEN IoToEmit(i, m.conversationId[1])
  ELSE IoEmit(i)

\* the 'message' event reaches the sockets in targets; each client runs
\* onMessageReceived on it
Delivered(targets, m, src, via, seq) ==
  [c \in Conn |-> IF c \in targets
                  THEN Append(received[c],
                              [msg |-> m, src |-> src, via |-> via, seq |-> seq])
                  ELSE received[c]]
Reconciled(targets, m) ==
  [c \in Conn |-> IF c \in targets THEN onMessageReceived(messages[c], m)
                  ELSE messages[c]]

\* if (this.pub) await this.pub.publish('Messages', JSON.stringify(...))
Publish(i, m, src) ==
  IF pub[i]
  THEN << [channel |-> MessagesTopic, data |-> JSONstringify(m), src |-> src] >>
  ELSE <<>>

\* the event:message payloads that may arrive next on socket c: what the web
\* client has emitted, or whatever other client software sends
Inbound(c) ==
  IF c \in WebClients
  THEN (IF wire[c] # <<>> THEN {Head(wire[c])} ELSE {})
  ELSE (IF used.submits < limit.submits /\ Quiet THEN Drafts ELSE {})

\* socket.on('event:message', ...) up to the await
OnEventMessage(c) ==
  /\ c \in connected
  /\ Home[c] \notin crashed
  /\ \E d \in Inbound(c) : \E t \in (IF ReadsClock(d) THEN Clock ELSE {now}) :
     LET i == Home[c]
         k == Len(submitLog) + 1
         r == EventMessageTry(d, SocketId(c), t)
     IN  /\ now' = t
         /\ crashed' = IF r.uncaught THEN crashed \cup {i} ELSE crashed
         /\ IF r.threw
            THEN /\ submitLog' = Append(submitLog,
                        [conn |-> c, draft |-> d, msg |-> None,
                         connectedAt |-> connected, roomsAt |-> rooms,
                         publish |-> "none"])
                 /\ UNCHANGED << received, messages, cmdQ >>
            ELSE LET m == r.value
                 IN  /\ received' = Delivered(Fanout(i, m), m, k, "local", 0)
                     /\ messages' = Reconciled(Fanout(i, m), m)
                     /\ cmdQ' = [cmdQ EXCEPT ![i] = @ \o Publish(i, m, k)]
                     /\ submitLog' = Append(submitLog,
                           [conn |-> c, draft |-> d, msg |-> Some(m),
                            connectedAt |-> connected, roomsAt |-> rooms,
                            publish |-> IF Publish(i, m, k) = <<>> THEN "none"
                                        ELSE "pending"])
  /\ IF c \in WebClients
     THEN wire' = [wire EXCEPT ![c] = Tail(@)] /\ UNCHANGED used
     ELSE used' = [used EXCEPT !.submits = @ + 1] /\ UNCHANGED wire
  /\ UNCHANGED << service, subQ, topicLog, connected, rooms, session, limit >>

RoomPayloads == { [roomId |-> Some("X")], [roomId |-> Some("")],
                  [roomId |-> None] }

SocketJoinToggle(c, room) ==
  [rooms EXCEPT ![c] = IF room \in @ THEN @ \ {room} ELSE @ \cup {room}]

\* socket.join(room): the socket's rooms are a set
SocketJoin(c, room) == [rooms EXCEPT ![c] = @ \cup {room}]

\* socket.leave(room)
SocketLeave(c, room) == [rooms EXCEPT ![c] = @ \ {room}]

JoinedRoomToAll(c, p) ==
  [o \in Conn |->
     IF o \in connected /\ Truthy(p.roomId)
     THEN << Event("joined_room", Payload(p.roomId, None, None, None, None)) >>
     ELSE <<>>]

\* socket.emit('joined_room', { roomId: p.roomId }): what each socket is sent
JoinedRoom(c, p) ==
  [o \in Conn |->
     IF o = c /\ Truthy(p.roomId)
     THEN << Event("joined_room", Payload(p.roomId, None, None, None, None)) >>
     ELSE <<>>]

RECURSIVE ClientOnAll(_, _, _)
\* the client's state after the events es, all handled at time t
ClientOnAll(st, es, t) ==
  IF es = <<>> THEN st ELSE ClientOnAll(ClientOn(st, Head(es), t, t), Tail(es), t)

\* socket.on('join_room', ...)
OnJoinRoom(c, p) ==
  /\ c \in connected
  /\ Home[c] \notin crashed
  /\ Quiet
  /\ used.events < limit.events
  /\ rooms' = IF Truthy(p.roomId) THEN SocketJoin(c, p.roomId[1]) ELSE rooms
  /\ sent' = [o \in Conn |-> sent[o] \o JoinedRoom(c, p)[o]]
  /\ messages' = [o \in Conn |->
                    ClientOnAll(ClientState(o), JoinedRoom(c, p)[o], now).messages]
  /\ typingUsers' = [o \in Conn |->
                    ClientOnAll(ClientState(o), JoinedRoom(c, p)[o], now).typingUsers]
  /\ onlineUsers' = [o \in Conn |->
                    ClientOnAll(ClientState(o), JoinedRoom(c, p)[o], now).onlineUsers]
  /\ roomLog' = Append(roomLog, [event |-> "join_room", conn |-> c,
                                 roomId |-> p.roomId])
  /\ used' = [used EXCEPT !.events = @ + 1]
  /\ UNCHANGED << service, crashed, cmdQ, subQ, topicLog, connected, wire,
                  received, submitLog, now, typingLog, limit >>

\* socket.on('leave_room', ...)
OnLeaveRoom(c, p) ==
  /\ c \in connected
  /\ Home[c] \notin crashed
  /\ Quiet
  /\ used.events < limit.events
  /\ rooms' = IF Truthy(p.roomId) THEN SocketLeave(c, p.roomId[1]) ELSE rooms
  /\ roomLog' = Append(roomLog, [event |-> "leave_room", conn |-> c,
                                 roomId |-> p.roomId])
  /\ used' = [used EXCEPT !.events = @ + 1]
  /\ UNCHANGED << service, crashed, cmdQ, subQ, topicLog, connected, wire,
                  received, messages, submitLog, now, sent, onlineUsers,
                  typingUsers, typingLog, limit >>

\* io.on('connection', ...): a client connects to its instance
Connect(c) ==
  /\ c \notin connected
  /\ Home[c] \notin crashed
  /\ connected' = connected \cup {c}
  /\ UNCHANGED << service, crashed, cmdQ, subQ, topicLog, rooms, wire,
                  received, messages, submitLog, now, session, limit, used >>

\* socket.on('disconnect', ...): the socket is gone, with its rooms and with
\* whatever it had emitted that was not handled yet
Disconnect(c) ==
  /\ c \in connected
  /\ used.events < limit.events
  /\ connected' = connected \ {c}
  /\ rooms' = [rooms EXCEPT ![c] = {}]
  /\ wire' = [wire EXCEPT ![c] = <<>>]
  /\ used' = [used EXCEPT !.events = @ + 1]
  /\ UNCHANGED << service, crashed, cmdQ, subQ, topicLog, received, messages,
                  submitLog, now, session, limit >>

\* ------------------------------------------------------------------ broker
MathMin(a, b) == IF a <= b THEN a ELSE b

retryStrategyNoCap(times) == 2000 + times * 50

\* redisOpts.retryStrategy(times): the delay in ms before reconnect attempt
\* number times
retryStrategy(times) == MathMin(2000 + times * 50, 20000)

\* the link of instance i to the broker is down (again): the Redis client asks
\* the strategy for the delay before its next attempt, times counting the
\* attempts in a row from 1
RedisRetry(i) ==
  /\ pub[i]
  /\ retry[i].times < limit.retries
  /\ retry' = [retry EXCEPT ![i] = [times |-> @.times + 1,
                                    delay |-> retryStrategy(@.times + 1)]]
  /\ UNCHANGED << USE_REDIS, initThrew, pub, sub, listening, crashed, cmdQ, subQ,
                  topicLog, connected, rooms, wire, received, messages, submitLog,
                  now, session, limit, used >>

\* a payload as it reaches a subscriber, with its position on the topic
Arrival(h) ==
  [channel |-> h.channel, data |-> h.data, src |-> h.src,
   seq |-> Len(topicLog) + 1]

SetPublish(log, src, outcome) ==
  IF src \in 1..Len(log) THEN [log EXCEPT ![src].publish = outcome] ELSE log

\* the broker takes the oldest publish of instance i and hands it to every
\* subscriber of the topic; the awaited publish resolves
RedisAccept(i) ==
  /\ cmdQ[i] # <<>>
  /\ LET h == Head(cmdQ[i])
     IN  /\ topicLog' = Append(topicLog, h)
         /\ subQ' = [j \in Inst |-> IF listening[j]
                                    THEN Append(subQ[j], Arrival(h)) ELSE subQ[j]]
         /\ submitLog' = SetPublish(submitLog, h.src, "ok")
  /\ cmdQ' = [cmdQ EXCEPT ![i] = Tail(@)]
  /\ UNCHANGED << service, crashed, connected, rooms, wire, received, messages,
                  now, session, limit, used >>

\* the oldest publish of instance i fails (the link to the broker is down):
\* the awaited publish rejects and the handler's inner catch logs it
RedisReject(i) ==
  /\ cmdQ[i] # <<>>
  /\ submitLog' = SetPublish(submitLog, Head(cmdQ[i]).src, "failed")
  /\ cmdQ' = [cmdQ EXCEPT ![i] = Tail(@)]
  /\ UNCHANGED << service, crashed, subQ, topicLog, connected, rooms, wire,
                  received, messages, now, session, limit, used >>

\* what other publishers put on the topic: the canonical messages of a peer
\* instance, and payloads that are not JSON
PeerPayloads ==
  { JSONstringify(MessageShape(Some("tmp_9"), Some("X"), Some("u9"), None,
                               Some(<<"y", "o">>),
                               Some("2024-01-01T00:00:00.000Z"))),
    Malformed }

ForeignPublish(payload) ==
  /\ used.events < limit.events
  /\ LET h == [channel |-> MessagesTopic, data |-> payload, src |-> 0]
     IN  /\ topicLog' = Append(topicLog, h)
         /\ subQ' = [j \in Inst |-> IF listening[j]
                                    THEN Append(subQ[j], Arrival(h)) ELSE subQ[j]]
  /\ used' = [used EXCEPT !.events = @ + 1]
  /\ UNCHANGED << service, crashed, cmdQ, connected, rooms, wire, received,
                  messages, submitLog, now, session, limit >>

\* --------------------------------------------------------- subscribe side
SubHandlerNoCatch(message) ==
  LET r == JSONparse(message)
  IN  IF r.threw
      THEN [emit |-> FALSE, value |-> None, publish |-> FALSE, uncaught |-> TRUE]
      ELSE [emit |-> TRUE, value |-> Some(r.value), publish |-> FALSE,
            uncaught |-> FALSE]

SubHandlerRepublish(message) ==
  LET r == JSONparse(message)
  IN  IF r.threw
      THEN [emit |-> FALSE, value |-> None, publish |-> FALSE, uncaught |-> FALSE]
      ELSE [emit |-> TRUE, value |-> Some(r.value), publish |-> TRUE,
            uncaught |-> FALSE]

\* the body of sub.on('message') for channel 'Messages': what it emits,
\* whether it publishes, whether an error escapes it
SubHandler(message) ==
  LET r == JSONparse(message)
  IN  IF r.threw
      THEN [emit |-> FALSE, value |-> None, publish |-> FALSE, uncaught |-> FALSE]
      ELSE [emit |-> TRUE, value |-> Some(r.value), publish |-> FALSE,
            uncaught |-> FALSE]

\* this.sub.on('message', (channel, message) => ...)
OnSubMessage(j) ==
  /\ j \notin crashed
  /\ listening[j]
  /\ subQ[j] # <<>>
  /\ LET h == Head(subQ[j])
         r == IF h.channel = MessagesTopic THEN SubHandler(h.data)
              ELSE [emit |-> FALSE, value |-> None, publish |-> FALSE,
                    uncaught |-> FALSE]
     IN  /\ IF r.emit
            THEN /\ received' = Delivered(IoEmit(j), r.value[1], h.src, "relay",
                                              h.seq)
                 /\ messages' = Reconciled(IoEmit(j), r.value[1])
            ELSE UNCHANGED << received, messages >>
         /\ cmdQ' = IF r.publish
                    THEN [cmdQ EXCEPT ![j] =
                            Append(@, [channel |-> h.channel, data |-> h.data,
                                       src |-> h.src])]
                    ELSE cmdQ
         /\ crashed' = IF r.uncaught THEN crashed \cup {j} ELSE crashed
  /\ subQ' = [subQ EXCEPT ![j] = Tail(@)]
  /\ UNCHANGED << service, topicLog, connected, rooms, wire, submitLog, now,
                  session, limit, used >>

Next ==
  \/ \E c \in Conn : Connect(c)
  \/ \E c \in Conn : Disconnect(c)
  \/ \E c \in WebClients, t \in SendTexts : sendMessage(c, t)
  \/ \E c \in WebClients, isTyping \in BOOLEAN : setTyping(c, isTyping)
  \/ \E c \in Conn : OnEventMessage(c)
  \/ \E c \in Conn, p \in RoomPayloads : OnJoinRoom(c, p)
  \/ \E c \in Conn, p \in RoomPayloads : OnLeaveRoom(c, p)
  \/ \E i \in Inst : RedisAccept(i)
  \/ \E i \in Inst : RedisReject(i)
  \/ \E i \in Inst : RedisRetry(i)
  \/ \E p \in PeerPayloads : ForeignPublish(p)
  \/ \E j \in Inst : OnSubMessage(j)

Spec == Init /\ [][Next]_vars

\* what the server does on its own once an event or a reply has arrived: the
\* event loop runs every handler that is due
ServerStep ==
  \/ \E c \in WebClients : OnEventMessage(c)
  \/ \E i \in Inst : RedisAccept(i) \/ RedisReject(i)
  \/ \E j \in Inst : OnSubMessage(j)

FairSpec == Spec /\ WF_vars(ServerStep)

\* ------------------------------------------------- the web client by itself
\* SocketProvider connected to a server that, besides handling event:message
\* as above, sends the events SocketProvider listens for.
ClientLimit ==
  [submits |-> MaxSubmits, events |-> 0, typing |-> 0, retries |-> 0,
   incoming |-> MaxIncoming]

LocalOnly == [i \in Inst |-> [useRedis |-> FALSE, throwAt |-> "none"]]

ClientInit == Start(LocalOnly, ClientLimit)

\* presence and typing events such a server sends: payloads of either shape
\* the two listeners of an event expect, an object or a bare user id
ServerEvents ==
  LET who == Payload(None, Some("u_a"), Some("name_a"), None, None)
  IN  { Event("user:joined", who),
        Event("user:joined", StringPayload("u_a")),
        Event("user:left", StringPayload("u_a")),
        Event("user:typing", who),
        Event("user:typing", StringPayload("u_a")),
        Event("user:stop-typing", who),
        Event("users:online",
              Payload(None, None, None, None, Some(<< "u_a", "u_b" >>))) }

\* messages of other users such a server sends
ServerMessages ==
  { MessageShape(Some("m_1"), None, Some("u_a"), Some("name_a"),
                 Some(<< "h", "i" >>), Some("2024-01-01T00:00:00.000Z")) }

\* the listeners that read the clock
ListenerReadsClock(e) == e.event \in {"user:joined", "user:left"}

\* an event other than 'message' arrives at the client of socket c
OnServerEvent(c, e) ==
  /\ c \in connected
  /\ used.incoming < limit.incoming
  /\ \E t1 \in (IF ListenerReadsClock(e) THEN Clock ELSE {now}) :
       \E t2 \in (IF ListenerReadsClock(e) THEN t1..MaxClock ELSE {now}) :
         LET st == ClientOn(ClientState(c), e, t1, t2)
         IN  /\ messages' = [messages EXCEPT ![c] = st.messages]
             /\ typingUsers' = [typingUsers EXCEPT ![c] = st.typingUsers]
             /\ onlineUsers' = [onlineUsers EXCEPT ![c] = st.onlineUsers]
             /\ now' = t2
  /\ sent' = [sent EXCEPT ![c] = Append(@, e)]
  /\ used' = [used EXCEPT !.incoming = @ + 1]
  /\ UNCHANGED << service, crashed, cmdQ, subQ, topicLog, connected, rooms, wire,
                  received, submitLog, typingLog, roomLog, limit >>

\* s.on('message', onMessageReceived): a message of another user arrives
OnServerMessage(c, m) ==
  /\ c \in connected
  /\ used.incoming < limit.incoming
  /\ received' = Delivered({c}, m, 0, "server", 0)
  /\ messages' = Reconciled({c}, m)
  /\ used' = [used EXCEPT !.incoming = @ + 1]
  /\ UNCHANGED << service, crashed, cmdQ, subQ, topicLog, connected, rooms, wire,
                  submitLog, now, session, limit >>

ClientNext ==
  \/ \E c \in WebClients : Connect(c)
  \/ \E c \in WebClients, t \in SendTexts : sendMessage(c, t)
  \/ \E c \in WebClients : OnEventMessage(c)
  \/ \E c \in WebClients, e \in ServerEvents : OnServerEvent(c, e)
  \/ \E c \in WebClients, m \in ServerMessages : OnServerMessage(c, m)

ClientSpec == ClientInit /\ [][ClientNext]_vars

\* ================================================================= claims
Submits == 1..Len(submitLog)
Accepted == {k \in Submits : submitLog[k].msg # None}
Canonical(k) == submitLog[k].msg[1]
InstanceOf(k) == Home[submitLog[k].conn]

\* the positions in c's event log of the deliveries of submit k
Deliveries(c, k) == {n \in 1..Len(received[c]) : received[c][n].src = k}
LocalDeliveries(c, k) == {n \in Deliveries(c, k) : received[c][n].via = "local"}
\* the positions on the topic / in the publish queue of submit k's payload
OnTopic(k) == {n \in 1..Len(topicLog) : topicLog[n].src = k}
Queued(i, k) == {n \in 1..Len(cmdQ[i]) : cmdQ[i][n].src = k}
Min(S) == CHOOSE n \in S : \A o \in S : n <= o

\* the sockets that were in scope of submit k when it was handled
InScope(k) ==
  LET at == submitLog[k]
      here == {c \in at.connectedAt : Home[c] = InstanceOf(k)}
  IN  IF Truthy(Canonical(k).conversationId)
      THEN {c \in here : Canonical(k).conversationId[1] \in at.roomsAt[c]}
      ELSE here

\* C1: a 'message' event for a message with a non-empty conversationId X is
\* only ever written to a socket that is a member of room X at that moment.
C1_RoomScopedDelivery ==
  [][\A c \in Conn :
       Len(received'[c]) > Len(received[c]) =>
         LET e == received'[c][Len(received'[c])]
         IN  Truthy(e.msg.conversationId) =>
               e.msg.conversationId[1] \in rooms[c]]_vars

\* C2: the payload of every handled submit is on the 'Messages' topic once if
\* its publish resolved and not at all otherwise, it is queued for publishing
\* only while that publish is pending, and what other publishers put on the
\* topic is never put there again: nothing received through the subscription
\* is published.
C2_NoRepublish ==
  /\ \A k \in Submits :
       /\ Cardinality(OnTopic(k)) = IF submitLog[k].publish = "ok" THEN 1 ELSE 0
       /\ Cardinality(Queued(InstanceOf(k), k)) =
            IF submitLog[k].publish = "pending" THEN 1 ELSE 0
  /\ Cardinality(OnTopic(0)) <= used.events
  /\ \A i \in Inst : Queued(i, 0) = {}

C2_Witness ==
  \E k \in Accepted :
    /\ submitLog[k].publish = "ok"
    /\ \A i \in Inst : subQ[i] = <<>> /\ cmdQ[i] = <<>>
    /\ \E c \in Conn : \E n \in Deliveries(c, k) : received[c][n].via = "relay"
    /\ \E c \in Conn : \E n \in Deliveries(c, 0) : received[c][n].via = "relay"

\* C3: no socket is sent the 'message' event of one submit more than once.
C3_DeliveredOnce ==
  \A k \in Accepted : \A c \in Conn : Cardinality(Deliveries(c, k)) <= 1

\* the text of a draft is absent, empty or only white space
BlankText(d) ==
  \/ d.kind = "string" /\ Trim(d.str) = <<>>
  \/ d.kind = "object" /\ (d.text = None \/ Trim(d.text[1]) = <<>>)

\* C4: a submit whose text is blank is delivered to nobody and not published.
C4_BlankRejected ==
  \A k \in Submits :
    BlankText(submitLog[k].draft) =>
      /\ \A c \in Conn : Deliveries(c, k) = {}
      /\ submitLog[k].publish = "none"
      /\ OnTopic(k) = {}

\* C5: a draft object with a non-empty id T becomes a canonical message with
\* id T, and every copy of it that is delivered or published carries id T; the
\* canonical id differs from the draft's only for a bare string or an absent
\* or empty id.
C5_CanonicalId ==
  \A k \in Accepted :
    LET d == submitLog[k].draft
    IN  /\ (d.kind = "object" /\ Truthy(d.id)) =>
             /\ Canonical(k).id = d.id
             /\ \A c \in Conn : \A n \in Deliveries(c, k) :
                  received[c][n].msg.id = d.id
             /\ \A n \in OnTopic(k) : JSONparse(topicLog[n].data).value.id = d.id
             /\ \A n \in Queued(InstanceOf(k), k) :
                  JSONparse(cmdQ[InstanceOf(k)][n].data).value.id = d.id
        /\ Canonical(k).id # d.id => (d.kind = "string" \/ ~Truthy(d.id))

C5_Witness ==
  \E k \in Accepted :
    /\ submitLog[k].draft.kind = "object"
    /\ Truthy(submitLog[k].draft.id)
    /\ OnTopic(k) # {}
    /\ \E c \in Conn : \E n \in Deliveries(c, k) : received[c][n].via = "relay"

\* C6: a submit without a conversationId is written to every socket that is
\* connected to the instance when it is handled, and with the relay enabled
\* its payload is published once: queued once until the publish resolves and
\* then on the topic once.
C6_GlobalScope ==
  \A k \in Accepted :
    ~Truthy(Canonical(k).conversationId) =>
      /\ \A c \in submitLog[k].connectedAt :
           Home[c] = InstanceOf(k) => LocalDeliveries(c, k) # {}
      /\ pub[InstanceOf(k)] =>
           /\ submitLog[k].publish \in {"pending", "ok", "failed"}
           /\ submitLog[k].publish = "pending" =>
                Cardinality(Queued(InstanceOf(k), k)) = 1 /\ OnTopic(k) = {}
           /\ submitLog[k].publish = "ok" =>
                Cardinality(OnTopic(k)) = 1 /\ Queued(InstanceOf(k), k) = {}

C6_Witness ==
  \E k \in Accepted :
    /\ ~Truthy(Canonical(k).conversationId)
    /\ submitLog[k].connectedAt = Conn
    /\ \E c \in Conn : submitLog[k].roomsAt[c] # {}
    /\ \E c \in Conn : submitLog[k].roomsAt[c] = {}
    /\ submitLog[k].publish = "ok"

\* C7: whatever becomes of the publish (none, pending, resolved, rejected),
\* every socket in scope of a handled submit has been written the event by
\* the handler itself, from the moment the publish is issued.
C7_LocalDeliveryFirst ==
  \A k \in Accepted :
    /\ submitLog[k].publish \in {"none", "pending", "ok", "failed"}
    /\ \A c \in InScope(k) : LocalDeliveries(c, k) # {}

C7_Witness ==
  \E k \in Accepted :
    /\ submitLog[k].publish = "failed"
    /\ Truthy(Canonical(k).conversationId)
    /\ InScope(k) # {}
    /\ \E c \in Conn : c \notin InScope(k) /\ c \in submitLog[k].connectedAt

\* C8: no error escapes the subscription handler, and every event it writes
\* to a socket is the parsed value of a payload that parses: nothing is
\* delivered for a payload that does not.
C8_MalformedDropped ==
  /\ crashed = {}
  /\ \A c \in Conn : \A n \in 1..Len(received[c]) :
       LET e == received[c][n]
       IN  e.via = "relay" =>
             /\ e.seq \in 1..Len(topicLog)
             /\ ~JSONparse(topicLog[e.seq].data).threw
             /\ JSONparse(topicLog[e.seq].data).value = e.msg

\* a payload that does not parse was dropped, and a later submit was then
\* delivered both by its handler and through the subscription
C8_Witness ==
  /\ topicLog # <<>>
  /\ JSONparse(topicLog[1].data).threw
  /\ \A i \in Inst : listening[i] /\ subQ[i] = <<>>
  /\ \E k \in Accepted : \E c \in Conn :
       /\ LocalDeliveries(c, k) # {}
       /\ \E n \in Deliveries(c, k) :
            received[c][n].via = "relay" /\ received[c][n].seq > 1

\* the relay of instance i is off: disabled, or its initialization threw
RelayOff(i) == ~USE_REDIS[i] \/ initThrew[i] # "none"

\* C9: on an instance whose relay is off both handles are absent, nothing is
\* queued for publishing or published, and every handled submit is written
\* to the sockets in its scope.
C9_RelayDisabled ==
  \A i \in Inst :
    RelayOff(i) =>
      /\ ~pub[i] /\ ~sub[i]
      /\ cmdQ[i] = <<>>
      /\ \A k \in Accepted :
           InstanceOf(k) = i =>
             /\ submitLog[k].publish = "none"
             /\ OnTopic(k) = {}
             /\ \A c \in InScope(k) : LocalDeliveries(c, k) # {}

C9_Witness ==
  \E k \in Accepted :
    /\ USE_REDIS[InstanceOf(k)]
    /\ initThrew[InstanceOf(k)] = "subscribe"
    /\ Cardinality(InScope(k)) = 2

\* the position of the entry with the id of submit k in c's message list
ListPositions(c, k) ==
  {n \in 1..Len(messages[c]) : messages[c][n].id = Canonical(k).id}

\* C10: of two submits of one socket, a socket of the same instance that is
\* sent both is sent the earlier one first, and in every client's message
\* list the earlier one stands before the later one.
C10_PerSenderOrder ==
  \A k1 \in Accepted, k2 \in Accepted :
    (k1 < k2 /\ submitLog[k1].conn = submitLog[k2].conn) =>
      \A c \in Conn :
        /\ (Deliveries(c, k1) # {} /\ Deliveries(c, k2) # {}) =>
             Min(Deliveries(c, k1)) < Min(Deliveries(c, k2))
        /\ (Canonical(k1).id # Canonical(k2).id /\ ListPositions(c, k1) # {}
              /\ ListPositions(c, k2) # {}) =>
             Min(ListPositions(c, k1)) < Min(ListPositions(c, k2))

Last(sq) == sq[Len(sq)]
RoomIds == {"X"}

\* the live sockets with identity U that are members of room R
Holders(live, rs, R, U) == {d \in live : UserId(d) = U /\ R \in rs[d]}

\* C11: for every room R and user U, U is in the onlineUsers set of every
\* connected client iff a connected socket with identity U is a member of R.
C11_PresenceConsistency ==
  \A c \in connected, R \in RoomIds, d \in Conn :
    (StringPayload(UserId(d)) \in onlineUsers[c]) <=>
      (Holders(connected, rooms, R, UserId(d)) # {})

\* this step writes a presence event of that name for user U to some socket
Announced(name, U) ==
  \E o \in Conn :
    /\ Len(sent'[o]) > Len(sent[o])
    /\ \E n \in (Len(sent[o]) + 1)..Len(sent'[o]) :
         /\ sent'[o][n].event = name
         /\ (sent'[o][n].payload.str = Some(U) \/
             sent'[o][n].payload.userId = Some(U))

\* C12: a step in which a user goes from no live member socket in a room to
\* at least one announces 'user:joined' for that user, a step in which it
\* goes back to none announces 'user:left', and no other step announces
\* either.
C12_PresenceAnnouncements ==
  [][\A R \in RoomIds, d \in Conn :
       LET U == UserId(d)
           before == Holders(connected, rooms, R, U)
           after == Holders(connected', rooms', R, U)
       IN  /\ (before = {} /\ after # {}) => Announced("user:joined", U)
           /\ (before # {} /\ after = {}) => Announced("user:left", U)
           /\ ((before = {}) = (after = {})) =>
                ~Announced("user:joined", U) /\ ~Announced("user:left", U)]_vars

\* the last typing event socket c emitted is 'user:typing'
IsTyping(c) == typingLog[c] # <<>> /\ Last(typingLog[c]).event = "user:typing"

\* some other socket has been sent 'user:stop-typing' for the user of c
StopNotified(c) ==
  \E o \in Conn \ {c} : \E n \in 1..Len(sent[o]) :
    /\ sent[o][n].event = "user:stop-typing"
    /\ sent[o][n].payload.userId = Some(UserId(c))

\* C13: a user who is typing and sends no stop is eventually notified as
\* stopped to the other sockets.
C13_TypingAutoClear ==
  \A c \in Conn : IsTyping(c) ~> (~IsTyping(c) \/ StopNotified(c))

\* C14: within one burst (no 'user:stop-typing' in between) a client emits
\* 'user:typing' once: no two consecutive typing events it emits are both
\* 'user:typing'.
C14_TypingCoalesced ==
  \A c \in Conn : \A n \in 1..(Len(typingLog[c]) - 1) :
    ~(typingLog[c][n].event = "user:typing" /\
      typingLog[c][n + 1].event = "user:typing")

\* C15: the step in which a socket whose user is typing disconnects writes
\* 'user:stop-typing' for that user to every socket that stays connected.
C15_DisconnectClearsTyping ==
  [][\A c \in Conn :
       (c \in connected /\ c \notin connected' /\ IsTyping(c)) =>
         \A o \in connected' :
           /\ Len(sent'[o]) > Len(sent[o])
           /\ Last(sent'[o]).event = "user:stop-typing"
           /\ Last(sent'[o]).payload.userId = Some(UserId(c))]_vars

\* C16: while the client's socket is not connected nothing of it is waiting
\* to be sent, and no step (a sendMessage call among them) adds a draft to
\* what it emits or an entry to its message list; a rejected sendMessage call
\* delivers nothing to anyone.
C16_NoOfflineQueue ==
  [][/\ \A c \in WebClients :
          c \notin connected =>
            wire[c] = <<>> /\ wire'[c] = <<>> /\ messages'[c] = messages[c]
     /\ used'.rejected > used.rejected =>
          wire' = wire /\ messages' = messages /\ received' = received]_vars

\* a send was rejected while the socket was down; after the reconnect one
\* message was sent and handled, and the list holds that one alone
C16_Witness ==
  \E c \in WebClients :
    /\ used.rejected = 1
    /\ used.events = 1
    /\ c \in connected
    /\ Len(messages[c]) = 1
    /\ \E k \in Accepted : submitLog[k].conn = c /\ Deliveries(c, k) # {}

\* C17: a handled join_room with a non-empty roomId makes the socket a member
\* of that room and writes one joined_room with that roomId to that socket
\* and nothing to any other; with a missing or empty roomId it changes no
\* membership and writes nothing; no other step writes joined_room.
C17_JoinAcknowledged ==
  [][IF Len(roomLog') > Len(roomLog) /\ Last(roomLog').event = "join_room"
     THEN LET e == Last(roomLog')
          IN  IF Truthy(e.roomId)
              THEN /\ e.roomId[1] \in rooms'[e.conn]
                   /\ sent'[e.conn] =
                        Append(sent[e.conn],
                               Event("joined_room",
                                     Payload(e.roomId, None, None, None, None)))
                   /\ \A o \in Conn \ {e.conn} : sent'[o] = sent[o]
              ELSE rooms' = rooms /\ sent' = sent
     ELSE sent' = sent]_vars

C17_Witness ==
  \E n, m \in 1..Len(roomLog) : \E o \in connected :
    /\ roomLog[n].event = "join_room" /\ Truthy(roomLog[n].roomId)
    /\ roomLog[m].event = "join_room" /\ ~Truthy(roomLog[m].roomId)
    /\ o # roomLog[n].conn
    /\ Len(sent[roomLog[n].conn]) = 1
    /\ sent[o] = <<>>

\* C18: a handled join_room or leave_room changes the rooms of no other
\* socket; a join adds the room to the socket's set, and is without effect
\* when the socket is a member already; a leave removes it, and is without
\* effect when the socket is no member.
C18_MembershipIdempotent ==
  [][Len(roomLog') > Len(roomLog) =>
       LET e == Last(roomLog')
           c == e.conn
       IN  /\ \A o \in Conn \ {c} : rooms'[o] = rooms[o]
           /\ ~Truthy(e.roomId) => rooms' = rooms
           /\ (e.event = "join_room" /\ Truthy(e.roomId)) =>
                /\ rooms'[c] = rooms[c] \cup {e.roomId[1]}
                /\ e.roomId[1] \in rooms[c] => rooms' = rooms
           /\ (e.event = "leave_room" /\ Truthy(e.roomId)) =>
                /\ rooms'[c] = rooms[c] \ {e.roomId[1]}
                /\ e.roomId[1] \notin rooms[c] => rooms' = rooms]_vars

\* a socket joined the room twice and is a member; another socket, no
\* member, left it
C18_Witness ==
  \E n, m, l \in 1..Len(roomLog) :
    /\ n < m
    /\ roomLog[n] = roomLog[m]
    /\ roomLog[n].event = "join_room" /\ Truthy(roomLog[n].roomId)
    /\ rooms[roomLog[n].conn] = {roomLog[n].roomId[1]}
    /\ roomLog[l].event = "leave_room" /\ roomLog[l].roomId = roomLog[n].roomId
    /\ roomLog[l].conn # roomLog[n].conn
    /\ roomLog[l].conn \in connected

\* C19: two handled submits never have the same canonical id.
C19_UniqueIds ==
  \A k1 \in Accepted, k2 \in Accepted :
    k1 # k2 => Canonical(k1).id # Canonical(k2).id

\* C20: a 'message' event whose id is in the client's list replaces the
\* entries with that id where they stand, the list keeping its length and
\* every other entry; otherwise it is appended.  Handling the same event once
\* more would change nothing, and a sendMessage call adds its one optimistic
\* entry.
C20_ReplaceElseAppend ==
  [][\A c \in Conn :
       /\ Len(received'[c]) > Len(received[c]) =>
            LET m == Last(received'[c]).msg
                old == messages[c]
                new == messages'[c]
            IN  /\ IF \E n \in 1..Len(old) : old[n].id = m.id
                   THEN /\ Len(new) = Len(old)
                        /\ \A n \in 1..Len(old) :
                             new[n] = IF old[n].id = m.id THEN m ELSE old[n]
                   ELSE new = Append(old, m)
                /\ onMessageReceived(new, m) = new
       /\ Len(wire'[c]) > Len(wire[c]) =>
            /\ Len(messages'[c]) = Len(messages[c]) + 1
            /\ SubSeq(messages'[c], 1, Len(messages[c])) = messages[c]
            /\ Last(messages'[c]).id = Last(wire'[c]).id]_vars

\* the sender's list holds its message once after the optimistic append, the
\* handler's delivery and the delivery through the subscription
C20_Witness ==
  \E k \in Accepted :
    LET c == submitLog[k].conn
    IN  /\ c \in WebClients
        /\ Cardinality(Deliveries(c, k)) = 2
        /\ Len(messages[c]) = 1
        /\ messages[c][1] = Canonical(k)

\* C21: the delay given for reconnect attempt n >= 1 is min(2000 + 50 n,
\* 20000): a number (the next attempt is always scheduled), at most 20000,
\* not below the delay of attempt n - 1, and above it while that one was
\* below 20000.
C21_RetryBackoff ==
  [][\A i \in Inst :
       retry'[i] # retry[i] =>
         LET n == retry'[i].times
             d == retry'[i].delay
         IN  /\ n = retry[i].times + 1
             /\ d \in Nat
             /\ d = (IF 2000 + 50 * n <= 20000 THEN 2000 + 50 * n ELSE 20000)
             /\ d <= 20000
             /\ n > 1 => d >= retry[i].delay
             /\ (n > 1 /\ retry[i].delay < 20000) => d > retry[i].delay]_vars

\* the delay has reached 20000 and stayed there for the attempt after
C21_Witness ==
  \E i \in Inst :
    /\ retry[i].times = 361
    /\ retry[i].delay = 20000
    /\ retryStrategy(359) < 20000
    /\ retryStrategy(360) = 20000

\* the handled submits whose handling threw
Thrown == Submits \ Accepted

\* C22: an event:message whose handling throws is written to no socket and
\* not published, the error stays inside the handler (the instance goes on),
\* and every submit handled after it is written to the sockets in its scope.
C22_FailureIsolated ==
  /\ crashed = {}
  /\ \A k \in Thrown :
       /\ \A c \in Conn : Deliveries(c, k) = {}
       /\ submitLog[k].publish = "none"
       /\ OnTopic(k) = {} /\ Queued(InstanceOf(k), k) = {}
  /\ \A k1 \in Thrown, k2 \in Accepted :
       k1 < k2 => \A c \in InScope(k2) : LocalDeliveries(c, k2) # {}

\* a null payload of one socket threw; a later message of the other socket
\* reached both
C22_Witness ==
  \E k1 \in Thrown, k2 \in Accepted :
    /\ k1 < k2
    /\ submitLog[k1].draft.kind = "null"
    /\ submitLog[k1].conn # submitLog[k2].conn
    /\ InScope(k2) = Conn
    /\ \A c \in Conn : LocalDeliveries(c, k2) # {}

C24_ListIdsDistinct ==
  \A c \in WebClients : \A n, m \in 1..Len(messages[c]) :
    n # m => messages[c][n].id # messages[c][m].id

\* the names in a typingUsers list
TypingNames(list) == {list[n] : n \in 1..Len(list)}

\* C25: a client's typingUsers list never holds a name twice; after a
\* 'user:typing' the name it carried is in the list, after a
\* 'user:stop-typing' it is not, and a name only enters the list in a step
\* that handles a 'user:typing' carrying it.
C25_TypingList ==
  [][\A c \in WebClients :
       LET old == TypingNames(typingUsers[c])
           new == TypingNames(typingUsers'[c])
           handled == Len(sent'[c]) > Len(sent[c])
           e == Last(sent'[c])
       IN  /\ Cardinality(new) = Len(typingUsers'[c])
           /\ (handled /\ e.event = "user:typing") =>
                new = old \cup {e.payload.username}
           /\ (handled /\ e.event = "user:stop-typing") =>
                new = old \ {e.payload.username}
           /\ new \ old # {} => handled /\ e.event = "user:typing"]_vars

\* 'user:typing' came twice for one name and then 'user:stop-typing' for it,
\* leaving the list empty
C25_Witness ==
  \E c \in WebClients :
    /\ Len(sent[c]) = 3
    /\ sent[c][1].event = "user:typing" /\ sent[c][2] = sent[c][1]
    /\ sent[c][3].event = "user:stop-typing"
    /\ sent[c][3].payload.username = sent[c][1].payload.username
    /\ typingUsers[c] = <<>>

====
